---- MODULE Spec2Model ----
(***************************************************************************)
(* Model of the foreclosure-auction search service: the standalone HTTP    *)
(* backend (zvg-app/backend/server.py, class ZVGBackend and its request    *)
(* handler) and the FastAPI application (app/app.py).                      *)
(*                                                                         *)
(* Python strings are modelled as sequences of one-character strings, so   *)
(* that split/strip/replace/lower/int()/re.match are computed as the code  *)
(* computes them.  A value the code only ever uses through `x or ''` or a  *)
(* truth test (None or the empty string) is the empty sequence.            *)
(***************************************************************************)
EXTENDS Integers, Sequences, FiniteSets, TLC

\* ------------------------------------------------------------------------
\* Characters outside ASCII, named so that the module itself stays ASCII.
\* ------------------------------------------------------------------------
UML_a == "{a-umlaut}"
UML_o == "{o-umlaut}"
UML_u == "{u-umlaut}"
UML_A == "{A-umlaut}"
UML_O == "{O-umlaut}"
UML_U == "{U-umlaut}"
A_TILDE == "{A-tilde}"
A_CIRC == "{A-circumflex}"
FRAC14 == "{one-quarter}"
CURREN == "{currency-sign}"
EURO == "{euro-sign}"

Digit == {"0", "1", "2", "3", "4", "5", "6", "7", "8", "9"}
WS == {" ", "\t", "\n"}

UpperLetters == <<"A", "B", "C", "D", "E", "F", "G", "H", "I", "J", "K", "L", "M",
                  "N", "O", "P", "Q", "R", "S", "T", "U", "V", "W", "X", "Y", "Z",
                  UML_A, UML_O, UML_U, A_TILDE, A_CIRC>>
LowerLetters == <<"a", "b", "c", "d", "e", "f", "g", "h", "i", "j", "k", "l", "m",
                  "n", "o", "p", "q", "r", "s", "t", "u", "v", "w", "x", "y", "z",
                  UML_a, UML_o, UML_u, "{a-tilde}", "{a-circumflex}">>

\* ------------------------------------------------------------------------
\* The str methods the code calls.
\* ------------------------------------------------------------------------
RECURSIVE LStrip(_)
LStrip(s) == IF s # <<>> /\ Head(s) \in WS THEN LStrip(Tail(s)) ELSE s

RECURSIVE RStrip(_)
RStrip(s) == IF s # <<>> /\ s[Len(s)] \in WS THEN RStrip(SubSeq(s, 1, Len(s) - 1)) ELSE s

Strip(s) == RStrip(LStrip(s))

RECURSIVE Split(_, _)
Split(s, c) ==
    IF \A i \in 1..Len(s) : s[i] # c THEN <<s>>
    ELSE LET i == CHOOSE k \in 1..Len(s) : s[k] = c /\ \A j \in 1..(k - 1) : s[j] # c
         IN  <<SubSeq(s, 1, i - 1)>> \o Split(SubSeq(s, i + 1, Len(s)), c)

RECURSIVE SplitWS(_)
SplitWS(s) ==
    LET t == LStrip(s)
    IN  IF t = <<>> THEN <<>>
        ELSE LET ends == {k \in 1..Len(t) : t[k] \in WS}
                 n == IF ends = {} THEN Len(t) + 1
                      ELSE CHOOSE k \in ends : \A j \in ends : k <= j
             IN  <<SubSeq(t, 1, n - 1)>> \o SplitWS(SubSeq(t, n, Len(t)))

StartsWith(s, p) == Len(s) >= Len(p) /\ SubSeq(s, 1, Len(p)) = p

EndsWith(s, p) == Len(s) >= Len(p) /\ SubSeq(s, Len(s) - Len(p) + 1, Len(s)) = p

Contains(s, sub) == \E i \in 1..(Len(s) - Len(sub) + 1) : SubSeq(s, i, i + Len(sub) - 1) = sub

RECURSIVE Replace(_, _, _)
Replace(s, old, new) ==
    IF s = <<>> THEN <<>>
    ELSE IF StartsWith(s, old)
         THEN new \o Replace(SubSeq(s, Len(old) + 1, Len(s)), old, new)
         ELSE <<Head(s)>> \o Replace(Tail(s), old, new)

LowerChar(c) ==
    IF \E i \in 1..Len(UpperLetters) : UpperLetters[i] = c
    THEN LowerLetters[CHOOSE i \in 1..Len(UpperLetters) : UpperLetters[i] = c]
    ELSE c

Lower(s) == [i \in 1..Len(s) |-> LowerChar(s[i])]

UpperChar(c) ==
    IF \E i \in 1..Len(LowerLetters) : LowerLetters[i] = c
    THEN UpperLetters[CHOOSE i \in 1..Len(LowerLetters) : LowerLetters[i] = c]
    ELSE c

Upper(s) == [i \in 1..Len(s) |-> UpperChar(s[i])]

RECURSIVE Join(_, _)
Join(sep, parts) ==
    IF parts = <<>> THEN <<>>
    ELSE IF Len(parts) = 1 THEN parts[1]
    ELSE parts[1] \o sep \o Join(sep, Tail(parts))

\* ------------------------------------------------------------------------
\* int(str): surrounding whitespace, one optional sign, digits with single
\* underscores between them; anything else is a ValueError.
\* ------------------------------------------------------------------------
DigitVal(c) ==
    CASE c = "0" -> 0 [] c = "1" -> 1 [] c = "2" -> 2 [] c = "3" -> 3 [] c = "4" -> 4
      [] c = "5" -> 5 [] c = "6" -> 6 [] c = "7" -> 7 [] c = "8" -> 8 [] c = "9" -> 9

RECURSIVE DigitsValue(_, _)
DigitsValue(s, acc) ==
    IF s = <<>> THEN acc
    ELSE IF Head(s) = "_" THEN DigitsValue(Tail(s), acc)
    ELSE DigitsValue(Tail(s), 10 * acc + DigitVal(Head(s)))

IntBody(t) ==
    LET u == Strip(t) IN IF u # <<>> /\ u[1] \in {"+", "-"} THEN Tail(u) ELSE u

IntLiteralOk(t) ==
    LET b == IntBody(t)
    IN  /\ b # <<>>
        /\ \A i \in 1..Len(b) : b[i] \in Digit \cup {"_"}
        /\ b[1] # "_"
        /\ b[Len(b)] # "_"
        /\ \A i \in 1..(Len(b) - 1) : ~(b[i] = "_" /\ b[i + 1] = "_")

ParseInt(t) ==
    IF IntLiteralOk(t)
    THEN LET u == Strip(t)
             v == DigitsValue(IntBody(t), 0)
         IN  [ok |-> TRUE, val |-> IF u[1] = "-" THEN 0 - v ELSE v]
    ELSE [ok |-> FALSE, val |-> 0]

\* ------------------------------------------------------------------------
\* datetime: the proleptic Gregorian calendar of datetime.date.
\* ------------------------------------------------------------------------
MINYEAR == 1
MAXYEAR == 9999

IsLeap(y) == y % 4 = 0 /\ (y % 100 # 0 \/ y % 400 = 0)

DaysInMonth(y, m) ==
    IF m = 2 THEN (IF IsLeap(y) THEN 29 ELSE 28)
    ELSE IF m \in {4, 6, 9, 11} THEN 30 ELSE 31

DaysBeforeYear(y) ==
    LET p == y - 1 IN p * 365 + (p \div 4) - (p \div 100) + (p \div 400)

RECURSIVE DaysBeforeMonth(_, _)
DaysBeforeMonth(y, m) ==
    IF m = 1 THEN 0 ELSE DaysBeforeMonth(y, m - 1) + DaysInMonth(y, m - 1)

ToOrdinal(d) == DaysBeforeYear(d.year) + DaysBeforeMonth(d.year, d.month) + d.day

RECURSIVE YearOfOrdinal(_, _)
YearOfOrdinal(n, y) == IF DaysBeforeYear(y + 1) < n THEN YearOfOrdinal(n, y + 1) ELSE y

RECURSIVE MonthOfOrdinal(_, _, _)
MonthOfOrdinal(n, y, m) ==
    IF DaysBeforeYear(y) + DaysBeforeMonth(y, m) + DaysInMonth(y, m) < n
    THEN MonthOfOrdinal(n, y, m + 1) ELSE m

FromOrdinal(n) ==
    LET y == YearOfOrdinal(n, (n \div 366) + 1)
        m == MonthOfOrdinal(n, y, 1)
    IN  [year |-> y, month |-> m, day |-> n - DaysBeforeYear(y) - DaysBeforeMonth(y, m)]

MaxOrdinal == DaysBeforeYear(MAXYEAR + 1)

\* date + timedelta(days): OverflowError outside year 1..9999.
DateAddDays(d, days) ==
    LET n == ToOrdinal(d) + days
    IN  IF n >= 1 /\ n <= MaxOrdinal
        THEN [ok |-> TRUE, date |-> FromOrdinal(n)]
        ELSE [ok |-> FALSE, date |-> d]

DateLess(a, b) ==
    \/ a.year < b.year
    \/ a.year = b.year /\ a.month < b.month
    \/ a.year = b.year /\ a.month = b.month /\ a.day < b.day

DateOf(dt) == [year |-> dt.year, month |-> dt.month, day |-> dt.day]

\* ------------------------------------------------------------------------
\* Results of a computation that may raise.
\* ------------------------------------------------------------------------
Raise(exc) == [tag |-> "raise", exc |-> exc]
NoneValue == [tag |-> "None"]
Datetime(y, mo, d, h, mi) ==
    [tag |-> "datetime", year |-> y, month |-> mo, day |-> d, hour |-> h, minute |-> mi]

\* datetime.datetime(year, month, day, hour, minute); month may be None.
DatetimeCtor(y, mo, d, h, mi) ==
    IF ~mo.some THEN Raise("TypeError")
    ELSE IF /\ y >= MINYEAR /\ y <= MAXYEAR
            /\ mo.val >= 1 /\ mo.val <= 12
            /\ d >= 1 /\ d <= DaysInMonth(y, mo.val)
            /\ h >= 0 /\ h <= 23
            /\ mi >= 0 /\ mi <= 59
         THEN Datetime(y, mo.val, d, h, mi)
         ELSE Raise("ValueError")

\* ------------------------------------------------------------------------
\* GermanDateParser
\* ------------------------------------------------------------------------
MONTHS ==
    << <<"J", "a", "n", "u", "a", "r">>,
       <<"F", "e", "b", "r", "u", "a", "r">>,
       <<"M", UML_a, "r", "z">>,
       <<"A", "p", "r", "i", "l">>,
       <<"M", "a", "i">>,
       <<"J", "u", "n", "i">>,
       <<"J", "u", "l", "i">>,
       <<"A", "u", "g", "u", "s", "t">>,
       <<"S", "e", "p", "t", "e", "m", "b", "e", "r">>,
       <<"O", "k", "t", "o", "b", "e", "r">>,
       <<"N", "o", "v", "e", "m", "b", "e", "r">>,
       <<"D", "e", "z", "e", "m", "b", "e", "r">> >>

MONTHS_get(name) ==
    IF \E i \in 1..Len(MONTHS) : MONTHS[i] = name
    THEN [some |-> TRUE, val |-> CHOOSE i \in 1..Len(MONTHS) : MONTHS[i] = name]
    ELSE [some |-> FALSE, val |-> 0]

UHR == <<"u", "h", "r">>

\* The body of parse's try block: a datetime, None, or the exception raised.
ParseTry(s) ==
    LET parts == Split(s, ",")
    IN  IF Len(parts) < 3 THEN NoneValue
        ELSE
        LET second == Strip(parts[2])
            toks == SplitWS(Replace(second, <<".">>, <<>>))
        IN  IF Len(toks) # 3 THEN Raise("ValueError")
            ELSE
            LET day == ParseInt(toks[1])
                month == MONTHS_get(toks[2])
                year == ParseInt(toks[3])
            IN  IF ~day.ok \/ ~year.ok THEN Raise("ValueError")
                ELSE
                LET t0 == Strip(parts[3])
                    time_str == IF EndsWith(Lower(t0), UHR)
                                THEN Strip(SubSeq(t0, 1, Len(t0) - 3)) ELSE t0
                    hm == Split(time_str, ":")
                IN  IF Len(hm) # 2 THEN Raise("ValueError")
                    ELSE
                    LET hour == ParseInt(hm[1])
                        minute == ParseInt(hm[2])
                    IN  IF ~hour.ok \/ ~minute.ok THEN Raise("ValueError")
                        ELSE DatetimeCtor(year.val, month, day.val, hour.val, minute.val)

\* parse without its try/except: what the body raises reaches the caller.
GermanDateParser_parse_unguarded(s) == ParseTry(s)

\* GermanDateParser.parse: any exception of the body becomes None.
GermanDateParser_parse(s) ==
    LET r == ParseTry(s) IN IF r.tag = "raise" THEN NoneValue ELSE r

\* ------------------------------------------------------------------------
\* ZVGBackend._fix_encoding: s.encode('latin-1', 'ignore').decode('utf-8',
\* 'ignore') when the text holds A-tilde or A-circumflex.  HighBytes gives the
\* Latin-1 byte of every non-ASCII character of the alphabet; the euro sign
\* and OTHER_CHAR (any character the alphabet does not name) are not Latin-1.
\* ------------------------------------------------------------------------
OTHER_CHAR == "{other}"

HighBytes ==
    { <<UML_a, 228>>, <<UML_o, 246>>, <<UML_u, 252>>, <<UML_A, 196>>, <<UML_O, 214>>,
      <<UML_U, 220>>, <<A_TILDE, 195>>, <<A_CIRC, 194>>, <<FRAC14, 188>>, <<CURREN, 164>>,
      <<"{a-tilde}", 227>>, <<"{a-circumflex}", 226>> }

Latin1(c) ==
    IF \E p \in HighBytes : p[1] = c THEN (CHOOSE p \in HighBytes : p[1] = c)[2]
    ELSE IF c \in {EURO, OTHER_CHAR} THEN 0 - 1
    ELSE 0

CharOfCodePoint(n) ==
    IF \E p \in HighBytes : p[2] = n THEN (CHOOSE p \in HighBytes : p[2] = n)[1] ELSE OTHER_CHAR

IsCont(c) == Latin1(c) >= 128 /\ Latin1(c) <= 191

SecondOk(lead, c) ==
    IF lead = 224 THEN Latin1(c) >= 160 /\ Latin1(c) <= 191
    ELSE IF lead = 237 THEN Latin1(c) >= 128 /\ Latin1(c) <= 159
    ELSE IsCont(c)

RECURSIVE Utf8DecodeIgnore(_)
Utf8DecodeIgnore(b) ==
    IF b = <<>> THEN <<>>
    ELSE
    LET v == Latin1(b[1])
        rest == Tail(b)
    IN  IF v < 128 THEN <<b[1]>> \o Utf8DecodeIgnore(rest)
        ELSE IF v >= 194 /\ v <= 223
        THEN IF rest # <<>> /\ IsCont(rest[1])
             THEN <<CharOfCodePoint((v - 192) * 64 + (Latin1(rest[1]) - 128))>>
                  \o Utf8DecodeIgnore(Tail(rest))
             ELSE Utf8DecodeIgnore(rest)
        ELSE IF v >= 224 /\ v <= 239
        THEN IF rest # <<>> /\ SecondOk(v, rest[1])
             THEN IF Len(rest) >= 2 /\ IsCont(rest[2])
                  THEN <<OTHER_CHAR>> \o Utf8DecodeIgnore(SubSeq(rest, 3, Len(rest)))
                  ELSE Utf8DecodeIgnore(Tail(rest))
             ELSE Utf8DecodeIgnore(rest)
        ELSE Utf8DecodeIgnore(rest)

Latin1EncodeIgnore(s) == SelectSeq(s, LAMBDA c : Latin1(c) >= 0)

FixEncoding(s) ==
    IF s = <<>> THEN <<>>
    ELSE IF (\E i \in 1..Len(s) : s[i] = A_TILDE) \/ (\E i \in 1..Len(s) : s[i] = A_CIRC)
         THEN Utf8DecodeIgnore(Latin1EncodeIgnore(s))
         ELSE s

\* server.py repairs the encoding of every text field, app.py of none.
Fix(fix, s) == IF fix THEN FixEncoding(s) ELSE s

\* ------------------------------------------------------------------------
\* property_keywords and _determine_property_type
\* ------------------------------------------------------------------------
L_Reihenhaus == <<"R", "e", "i", "h", "e", "n", "h", "a", "u", "s">>
L_Doppelhaushaelfte == <<"D", "o", "p", "p", "e", "l", "h", "a", "u", "s", "h", UML_a, "l", "f", "t", "e">>
L_Einfamilienhaus == <<"E", "i", "n", "f", "a", "m", "i", "l", "i", "e", "n", "h", "a", "u", "s">>
L_WohnGeschaeftshaus == <<"W", "o", "h", "n", "-", " ", "u", "n", "d", " ", "G", "e", "s", "c", "h", UML_a, "f", "t", "s", "h", "a", "u", "s">>
L_Gewerbeeinheit == <<"G", "e", "w", "e", "r", "b", "e", "e", "i", "n", "h", "e", "i", "t">>

property_keywords ==
    << <<L_Reihenhaus,
         << <<"r", "e", "i", "h", "e", "n", "h", "a", "u", "s">> >> >>,
       <<L_Doppelhaushaelfte,
         << <<"d", "o", "p", "p", "e", "l", "h", "a", "u", "s", "h", UML_a, "l", "f", "t", "e">>,
            <<"d", "o", "p", "p", "e", "l", "h", "a", "u", "s", "h", "a", "e", "l", "f", "t", "e">>,
            <<"d", "o", "p", "p", "e", "l", "h", "a", "u", "s", "h", "a", "e", "l", "f", "t", "e">>,
            <<"d", "o", "p", "p", "e", "l", "h", "a", "u", "s">> >> >>,
       <<L_Einfamilienhaus,
         << <<"e", "i", "n", "f", "a", "m", "i", "l", "i", "e", "n", "h", "a", "u", "s">> >> >>,
       <<L_WohnGeschaeftshaus,
         << <<"w", "o", "h", "n", "-", " ", "u", "n", "d", " ", "g", "e", "s", "c", "h", UML_a, "f", "t", "s", "h", "a", "u", "s">>,
            <<"w", "o", "h", "n", "-", " ", "u", "n", "d", " ", "g", "e", "s", "c", "h", "a", "e", "f", "t", "s", "h", "a", "u", "s">>,
            <<"w", "o", "h", "n", "-", "u", "n", "d", " ", "g", "e", "s", "c", "h", UML_a, "f", "t", "s", "h", "a", "u", "s">>,
            <<"w", "o", "h", "n", "-", "u", "n", "d", " ", "g", "e", "s", "c", "h", "a", "e", "f", "t", "s", "h", "a", "u", "s">> >> >>,
       <<L_Gewerbeeinheit,
         << <<"g", "e", "w", "e", "r", "b", "e", "e", "i", "n", "h", "e", "i", "t">>,
            <<"g", "e", "w", "e", "r", "b", "e", "f", "l", UML_a, "c", "h", "e">>,
            <<"g", "e", "w", "e", "r", "b", "e", "o", "b", "j", "e", "k", "t">> >> >> >>

\* property_keywords.get(ptype, [])
property_keywords_get(ptype) ==
    IF \E i \in 1..Len(property_keywords) : property_keywords[i][1] = ptype
    THEN property_keywords[CHOOSE i \in 1..Len(property_keywords) : property_keywords[i][1] = ptype][2]
    ELSE <<>>

KeywordHit(text, ptype) ==
    LET kws == property_keywords_get(ptype)
    IN  \E k \in 1..Len(kws) : Contains(text, kws[k])

\* The label chosen in the order of the keyword table, not of the caller's list.
determine_property_type_TableOrder(text, selected_types) ==
    LET hits == {i \in 1..Len(property_keywords) :
                   /\ \E j \in 1..Len(selected_types) : selected_types[j] = property_keywords[i][1]
                   /\ KeywordHit(text, property_keywords[i][1])}
    IN  IF hits = {} THEN <<>>
        ELSE property_keywords[CHOOSE i \in hits : \A j \in hits : i <= j][1]

\* The label returned, or <<>> for None (no label of the loop is empty: the
\* table has no empty key).
RECURSIVE determine_property_type(_, _)
determine_property_type(text, selected_types) ==
    IF selected_types = <<>> THEN <<>>
    ELSE IF KeywordHit(text, Head(selected_types)) THEN Head(selected_types)
    ELSE determine_property_type(text, Tail(selected_types))

\* ------------------------------------------------------------------------
\* re.match(r'^([^\d]+?)\s*(\d.*)?$', street)
\* A match is <<k, j, e>>: group 1 is s[1..k], \s* takes the next j
\* characters, group 2 is s[k+j+1..e], or took no part when e = 0.  The
\* engine tries k upwards (lazy), j downwards (greedy), group 2 before its
\* absence, e downwards (greedy); `.` is any character but the line feed
\* and `$` is the end or the place before a final line feed.
\* ------------------------------------------------------------------------
AtEnd(s, p) == p = Len(s) + 1 \/ (p = Len(s) /\ s[p] = "\n")

StreetMatchesAt(s, k) ==
    IF \E i \in 1..k : s[i] \in Digit THEN {}
    ELSE { m \in (0..(Len(s) - k)) \X (0..Len(s)) :
             /\ \A i \in (k + 1)..(k + m[1]) : s[i] \in WS
             /\ LET p == k + m[1] + 1
                IN  \/ m[2] = 0 /\ AtEnd(s, p)
                    \/ /\ m[2] >= p
                       /\ s[p] \in Digit
                       /\ \A i \in (p + 1)..m[2] : s[i] # "\n"
                       /\ AtEnd(s, m[2] + 1) }

Preferred(a, b) ==
    \/ a[1] > b[1]
    \/ a[1] = b[1] /\ a[2] >= b[2]

\* The split at the first digit wherever it stands, the prefix possibly empty.
StreetMatch_FirstDigit(s) ==
    LET ds == {i \in 1..Len(s) : s[i] \in Digit}
        fd == IF ds = {} THEN Len(s) + 1 ELSE CHOOSE i \in ds : \A j \in ds : i <= j
    IN  [matched |-> TRUE, group1 |-> SubSeq(s, 1, fd - 1), group2 |-> SubSeq(s, fd, Len(s))]

StreetMatch(s) ==
    LET ks == {k \in 1..Len(s) : StreetMatchesAt(s, k) # {}}
    IN  IF ks = {} THEN [matched |-> FALSE, group1 |-> <<>>, group2 |-> <<>>]
        ELSE LET k == CHOOSE x \in ks : \A y \in ks : x <= y
                 ms == StreetMatchesAt(s, k)
                 m == CHOOSE a \in ms : \A b \in ms : Preferred(a, b)
             IN  [matched |-> TRUE,
                  group1 |-> SubSeq(s, 1, k),
                  group2 |-> IF m[2] = 0 THEN <<>> ELSE SubSeq(s, k + m[1] + 1, m[2])]
\* ------------------------------------------------------------------------
\* Raw entries of the upstream provider.  termin_as_date is None, a datetime
\* or "malformed" (a true value without .date()); adresse is None, an
\* address or "malformed" (a true value without .strasse).
\* ------------------------------------------------------------------------
Malformed == [tag |-> "malformed"]
NoAdresse == [tag |-> "None"]
Adresse(strasse, plz, ort) == [tag |-> "Adresse", strasse |-> strasse, plz |-> plz, ort |-> ort]

Continue == [tag |-> "continue"]

InSeq(x, seq) == \E i \in 1..Len(seq) : seq[i] = x

NonEmpty(x) == x # <<>>

DigitChar(n) == CHOOSE c \in Digit : DigitVal(c) = n

RECURSIVE Pad(_, _)
Pad(n, width) ==
    IF width <= 1 /\ n < 10 THEN <<DigitChar(n)>>
    ELSE Pad(n \div 10, width - 1) \o <<DigitChar(n % 10)>>

\* strftime('%Y-%m-%d') and strftime('%H:%M') of a datetime
FormatDate(dt) == Pad(dt.year, 4) \o <<"-">> \o Pad(dt.month, 2) \o <<"-">> \o Pad(dt.day, 2)
FormatTime(dt) == Pad(dt.hour, 2) \o <<":">> \o Pad(dt.minute, 2)

\* The timestamp of an entry: the structured field, else the parsed text.
AuctionDate(fix, entry) ==
    IF entry.termin_as_date.tag # "None" THEN entry.termin_as_date
    ELSE IF entry.termin_as_str # <<>>
         THEN GermanDateParser_parse(Fix(fix, entry.termin_as_str))
         ELSE NoneValue

\* The date step without the comparison with min_date.
DateStep_NoMinDate(fix, entry, min_date) ==
    LET Check(auction_dt) ==
            IF auction_dt.tag = "None" THEN Continue
            ELSE IF auction_dt.tag = "malformed" THEN Raise("AttributeError")
            ELSE [tag |-> "ok", auction_dt |-> auction_dt]
    IN  Check(AuctionDate(fix, entry))

DateStep(fix, entry, min_date) ==
    LET Check(auction_dt) ==
            IF auction_dt.tag = "None" THEN Continue
            ELSE IF auction_dt.tag = "malformed" THEN Raise("AttributeError")
            ELSE IF DateLess(DateOf(auction_dt), min_date) THEN Continue
            ELSE [tag |-> "ok", auction_dt |-> auction_dt]
    IN  Check(AuctionDate(fix, entry))

\* The auction-type step letting every entry pass.
AuctionTypeStep_NoFilter(fix, entry, auction_types) ==
    [tag |-> "ok", art |-> Fix(fix, Strip(entry.art_der_versteigerung))]

AuctionTypeStep(fix, entry, auction_types) ==
    LET art == Fix(fix, Strip(entry.art_der_versteigerung))
    IN  IF auction_types # <<>> /\ art # <<>> /\ ~InSeq(art, auction_types)
        THEN Continue
        ELSE [tag |-> "ok", art |-> art]

CombinedText(fix, entry) ==
    Lower(Join(<<" ">>, SelectSeq(<<Fix(fix, entry.objekt_lage), Fix(fix, entry.beschreibung)>>,
                                  NonEmpty)))

PropertyTypeStep(fix, entry, property_types) ==
    IF property_types # <<>>
    THEN LET p == determine_property_type(CombinedText(fix, entry), property_types)
         IN  IF p = <<>> THEN Continue ELSE [tag |-> "ok", prop_type |-> p]
    ELSE [tag |-> "ok", prop_type |-> <<>>]

\* The address of an entry that has a structured address.
StructuredAddress(fix, adresse) ==
    LET street == Fix(fix, adresse.strasse)
        m == StreetMatch(street)
    IN  [tag |-> "ok",
         street |-> IF m.matched THEN Strip(m.group1) ELSE street,
         house_numbers |-> IF m.matched THEN Strip(m.group2) ELSE <<>>,
         zip_code |-> Fix(fix, adresse.plz),
         city |-> Fix(fix, adresse.ort)]

\* The address taken from the free-text location.
FallbackAddress(fix, entry) ==
    LET parts == Split(Fix(fix, entry.objekt_lage), ",")
        hn_tokens == IF Len(parts) > 1 THEN SplitWS(Strip(parts[2])) ELSE <<>>
    IN  [tag |-> "ok",
         street |-> Strip(parts[1]),
         house_numbers |-> IF hn_tokens # <<>> THEN hn_tokens[1] ELSE <<>>,
         zip_code |-> <<>>,
         city |-> <<>>]

AddressStep(fix, entry) ==
    IF entry.adresse.tag = "malformed" THEN Raise("AttributeError")
    ELSE IF entry.adresse.tag = "Adresse" THEN StructuredAddress(fix, entry.adresse)
    ELSE FallbackAddress(fix, entry)

\* The body of the try block of the loop: a listing, continue, or the
\* exception raised.
ProcessEntry(fix, entry, state, auction_types, property_types, min_date) ==
    LET Listing(d, a, p, adr) ==
            IF adr.tag # "ok" THEN adr
            ELSE [tag |-> "listing",
                  listing |->
                      [id |-> entry.zvg_id,
                       date |-> FormatDate(d.auction_dt),
                       time |-> FormatTime(d.auction_dt),
                       street |-> adr.street,
                       houseNumbers |-> adr.house_numbers,
                       zip |-> adr.zip_code,
                       city |-> adr.city,
                       state |-> state,
                       auctionType |-> a.art,
                       propertyType |-> p.prop_type]]
        AfterProperty(d, a, p) ==
            IF p.tag # "ok" THEN p ELSE Listing(d, a, p, AddressStep(fix, entry))
        AfterAuctionType(d, a) ==
            IF a.tag # "ok" THEN a
            ELSE AfterProperty(d, a, PropertyTypeStep(fix, entry, property_types))
        AfterDate(d) ==
            IF d.tag # "ok" THEN d
            ELSE AfterAuctionType(d, AuctionTypeStep(fix, entry, auction_types))
    IN  AfterDate(DateStep(fix, entry, min_date))

\* The loop body without its try/except.
TryEntry_NoIsolation(fix, entry, state, auction_types, property_types, min_date) ==
    ProcessEntry(fix, entry, state, auction_types, property_types, min_date)

\* try: ... except Exception: log a warning and continue
TryEntry(fix, entry, state, auction_types, property_types, min_date) ==
    LET Except(r) == IF r.tag = "raise" THEN [tag |-> "skipped", id |-> entry.zvg_id] ELSE r
    IN  Except(ProcessEntry(fix, entry, state, auction_types, property_types, min_date))

\* for raw in entries: ...; an exception that leaves the loop body ends the
\* loop and the search.
RECURSIVE SearchLoop(_, _, _, _, _, _, _)
SearchLoop(fix, raws, state, auction_types, property_types, min_date, acc) ==
    IF raws = <<>> THEN acc
    ELSE
    LET raw == Head(raws)
        Iterate(r) ==
            IF r.tag = "raise" THEN [acc EXCEPT !.raised = TRUE]
            ELSE SearchLoop(fix, Tail(raws), state, auction_types, property_types, min_date,
                     IF r.tag = "listing" THEN [acc EXCEPT !.results = Append(@, r.listing)]
                     ELSE IF r.tag = "skipped" THEN [acc EXCEPT !.warnings = Append(@, r.id)]
                     ELSE acc)
    IN  Iterate(IF raw.kind # "ObjektEntry" THEN Continue
                ELSE TryEntry(fix, raw, state, auction_types, property_types, min_date))

FilterEntries(fix, raws, state, auction_types, property_types, min_date) ==
    SearchLoop(fix, raws, state, auction_types, property_types, min_date,
               [results |-> <<>>, warnings |-> <<>>, raised |-> FALSE])
\* ------------------------------------------------------------------------
\* Python dicts: functions whose domain is the set of keys.
\* ------------------------------------------------------------------------
EmptyDict == [k \in {} |-> 0]

DictSet(d, k, v) == [x \in (DOMAIN d) \cup {k} |-> IF x = k THEN v ELSE d[x]]

DictSetAll(d, ks, v) == [x \in (DOMAIN d) \cup ks |-> IF x \in ks THEN v ELSE d[x]]

DictAddMissing(d, ks, v) == [x \in (DOMAIN d) \cup ks |-> IF x \in DOMAIN d THEN d[x] ELSE v]

RECURSIVE ReplaceEach(_, _)
ReplaceEach(s, pairs) ==
    IF pairs = <<>> THEN s
    ELSE ReplaceEach(Replace(s, pairs[1][1], pairs[1][2]), Tail(pairs))

\* ------------------------------------------------------------------------
\* ZVGBackend.__init__: state_map
\* ------------------------------------------------------------------------
rep_map ==
    << << <<"a", "e">>, <<UML_a>> >>, << <<"o", "e">>, <<UML_o>> >>, << <<"u", "e">>, <<UML_u>> >>,
       << <<"A", "e">>, <<UML_A>> >>, << <<"O", "e">>, <<UML_O>> >>, << <<"U", "e">>, <<UML_U>> >> >>

umlaut_map ==
    << << <<UML_a>>, <<"a", "e">> >>, << <<UML_o>>, <<"o", "e">> >>, << <<UML_u>>, <<"u", "e">> >>,
       << <<UML_A>>, <<"A", "e">> >>, << <<UML_O>>, <<"O", "e">> >>, << <<UML_U>>, <<"U", "e">> >> >>

RegisterLand(state_map, land) ==
    LET m1 == DictSet(state_map, land.name, land)
        name_variants == {ReplaceEach(land.name, rep_map), ReplaceEach(land.name, umlaut_map),
                          land.name}
        m2 == DictAddMissing(m1, name_variants, land)
    IN  DictAddMissing(m2, {Upper(land.short)}, land)

RECURSIVE BuildStateMap(_, _)
BuildStateMap(state_map, laender) ==
    IF laender = <<>> THEN state_map
    ELSE BuildStateMap(RegisterLand(state_map, Head(laender)), Tail(laender))

\* self.state_map.get(state): a land, or no land
NoLand == [name |-> <<>>, short |-> <<>>]

ZVGBackend_resolve(state_map, state) ==
    IF state \in DOMAIN state_map THEN state_map[state] ELSE NoLand

\* ------------------------------------------------------------------------
\* app.py: state_map and the resolution of search
\* ------------------------------------------------------------------------
short2full ==
    << << <<"b", "w">>,
          <<"b", "a", "d", "e", "n", "-", "w", "u", "e", "r", "t", "t", "e", "m", "b", "e", "r", "g">> >>,
       << <<"b", "y">>, <<"b", "a", "y", "e", "r", "n">> >>,
       << <<"b", "e">>, <<"b", "e", "r", "l", "i", "n">> >>,
       << <<"b", "r">>, <<"b", "r", "a", "n", "d", "e", "n", "b", "u", "r", "g">> >>,
       << <<"h", "b">>, <<"b", "r", "e", "m", "e", "n">> >>,
       << <<"h", "h">>, <<"h", "a", "m", "b", "u", "r", "g">> >>,
       << <<"h", "e">>, <<"h", "e", "s", "s", "e", "n">> >>,
       << <<"m", "v">>,
          <<"m", "e", "c", "k", "l", "e", "n", "b", "u", "r", "g", "-", "v", "o", "r", "p", "o", "m", "m", "e", "r", "n">> >>,
       << <<"n", "i">>, <<"n", "i", "e", "d", "e", "r", "s", "a", "c", "h", "s", "e", "n">> >>,
       << <<"n", "w">>,
          <<"n", "o", "r", "d", "r", "h", "e", "i", "n", "-", "w", "e", "s", "t", "f", "a", "l", "e", "n">> >>,
       << <<"r", "p">>, <<"r", "h", "e", "i", "n", "l", "a", "n", "d", "-", "p", "f", "a", "l", "z">> >>,
       << <<"s", "l">>, <<"s", "a", "a", "r", "l", "a", "n", "d">> >>,
       << <<"s", "n">>, <<"s", "a", "c", "h", "s", "e", "n">> >>,
       << <<"s", "t">>, <<"s", "a", "c", "h", "s", "e", "n", "-", "a", "n", "h", "a", "l", "t">> >>,
       << <<"s", "h">>,
          <<"s", "c", "h", "l", "e", "s", "w", "i", "g", "-", "h", "o", "l", "s", "t", "e", "i", "n">> >>,
       << <<"t", "h">>, <<"t", "h", "u", "e", "r", "i", "n", "g", "e", "n">> >> >>

short2full_keys == {short2full[i][1] : i \in 1..Len(short2full)}

short2full_at(k) == short2full[CHOOSE i \in 1..Len(short2full) : short2full[i][1] = k][2]

ToUmlauts(s) ==
    Replace(Replace(Replace(s, <<"u", "e">>, <<UML_u>>), <<"o", "e">>, <<UML_o>>),
            <<"a", "e">>, <<UML_a>>)

ToDigraphs(s) ==
    Replace(Replace(Replace(s, <<UML_u>>, <<"u", "e">>), <<UML_o>>, <<"o", "e">>),
            <<UML_a>>, <<"a", "e">>)

app_RegisterLand(state_map, land) ==
    LET lname == Lower(land.name)
        m1 == DictSet(state_map, lname, land)
        variants == {lname, ToUmlauts(lname), ToDigraphs(lname)} \cup short2full_keys
        keys == {IF v \in short2full_keys THEN short2full_at(v) ELSE v : v \in variants}
    IN  DictSetAll(m1, keys, land)

RECURSIVE app_BuildStateMap(_, _)
app_BuildStateMap(state_map, laender) ==
    IF laender = <<>> THEN state_map
    ELSE app_BuildStateMap(app_RegisterLand(state_map, Head(laender)), Tail(laender))

\* land = state_map.get(s) or state_map.get(state.strip().lower())
app_resolve(state_map, state) ==
    LET s == ToDigraphs(Lower(Strip(state)))
        t == Lower(Strip(state))
    IN  IF s \in DOMAIN state_map THEN state_map[s]
        ELSE IF t \in DOMAIN state_map THEN state_map[t]
        ELSE NoLand

\* ------------------------------------------------------------------------
\* ZVGBackend._get_entries_cached.  `up` is what portal.list(land) does if
\* it is called: [tag |-> "entries", entries |-> ...] or an exception.
\* ------------------------------------------------------------------------
DEFAULT_TTL == 1800

\* A slot counted as fresh up to and including the time-to-live.
CacheFresh_Inclusive(entries_cache, key, now, ttl) ==
    key \in DOMAIN entries_cache /\ now - entries_cache[key].ts <= ttl

CacheFresh(entries_cache, key, now, ttl) ==
    key \in DOMAIN entries_cache /\ now - entries_cache[key].ts < ttl

\* A refresh that changes the entries of a slot in place and keeps its timestamp.
StoreSlot_InPlace(entries_cache, key, now, entries) ==
    IF key \in DOMAIN entries_cache
    THEN [entries_cache EXCEPT ![key].entries = entries]
    ELSE DictSet(entries_cache, key, [ts |-> now, entries |-> entries])

\* self._entries_cache[key] = {'ts': now, 'entries': entries}: one store of a
\* new pair
StoreSlot(entries_cache, key, now, entries) ==
    DictSet(entries_cache, key, [ts |-> now, entries |-> entries])

\* A refresh that stores the slot before the upstream call has returned, so
\* that a call that raises leaves an empty list behind.
GetEntriesCached_StoreFirst(entries_cache, ttl, now, land, up) ==
    LET key == land.name
    IN  IF CacheFresh(entries_cache, key, now, ttl)
        THEN [tag |-> "entries", entries |-> entries_cache[key].entries,
              cache |-> entries_cache, portal_calls |-> 0]
        ELSE IF up.tag = "raise"
        THEN [tag |-> "raise", entries |-> <<>>,
              cache |-> StoreSlot(entries_cache, key, now, <<>>), portal_calls |-> 1]
        ELSE [tag |-> "entries", entries |-> up.entries,
              cache |-> StoreSlot(entries_cache, key, now, up.entries),
              portal_calls |-> 1]

GetEntriesCached(entries_cache, ttl, now, land, up) ==
    LET key == land.name
    IN  IF CacheFresh(entries_cache, key, now, ttl)
        THEN [tag |-> "entries", entries |-> entries_cache[key].entries,
              cache |-> entries_cache, portal_calls |-> 0]
        ELSE IF up.tag = "raise"
        THEN [tag |-> "raise", entries |-> <<>>, cache |-> entries_cache, portal_calls |-> 1]
        ELSE [tag |-> "entries", entries |-> up.entries,
              cache |-> StoreSlot(entries_cache, key, now, up.entries),
              portal_calls |-> 1]
\* ------------------------------------------------------------------------
\* State
\* ------------------------------------------------------------------------
VARIABLES
    laender,            \* what portal.get_laender() enumerated at start-up
    state_map,          \* ZVGBackend.state_map
    app_state_map,      \* app.py's state_map
    cache_ttl_seconds,  \* ZVGBackend._cache_ttl_seconds
    entries_cache,      \* ZVGBackend._entries_cache
    clock,              \* time.time()
    today,              \* datetime.datetime.now().date()
    nreq,               \* requests served
    request,            \* the last request, and what the upstream would answer to it
    response,           \* the answer to it
    trace,              \* what serving it did: the land resolved, min_date, the
                        \* entries fetched, the upstream calls, the warnings logged
    threads,            \* the calls of _get_entries_cached under way, one a thread:
                        \* the line each has reached and its local variables
    refreshes,          \* history: the (land, now, entries) of every upstream call
                        \* that returned inside such a call
    input,              \* the argument drawn for a function or a single request
    output              \* the function's result

svars == <<laender, state_map, app_state_map, cache_ttl_seconds, entries_cache, clock, today,
           nreq, request, response, trace, threads, refreshes>>
vars == <<laender, state_map, app_state_map, cache_ttl_seconds, entries_cache, clock, today,
          nreq, request, response, trace, threads, refreshes, input, output>>

SomeDate(d) == [some |-> TRUE, date |-> d]

NoTrace ==
    [land |-> NoLand, min_date |-> [some |-> FALSE], fetched |-> FALSE, entries |-> <<>>,
     portal_calls |-> 0, warnings |-> <<>>]

API_SEARCH == "/api/search"

\* [a for a in param.split(',') if a]
CommaList(param) == SelectSeq(Split(param, ","), NonEmpty)

\* ------------------------------------------------------------------------
\* ZVGBackend.search
\* ------------------------------------------------------------------------
ZVGBackend_search(state, auction_types, property_types, min_days, up) ==
    LET Filtered(land, md, f, r) ==
            [raised |-> r.raised, results |-> r.results, cache |-> f.cache,
             trace |-> [NoTrace EXCEPT !.land = land, !.min_date = SomeDate(md.date),
                                       !.fetched = TRUE, !.portal_calls = f.portal_calls,
                                       !.entries = f.entries, !.warnings = r.warnings]]
        Fetched(land, md, f) ==
            IF f.tag = "raise"
            THEN [raised |-> TRUE, results |-> <<>>, cache |-> f.cache,
                  trace |-> [NoTrace EXCEPT !.land = land, !.min_date = SomeDate(md.date),
                                            !.fetched = TRUE, !.portal_calls = f.portal_calls]]
            ELSE Filtered(land, md, f,
                          FilterEntries(TRUE, f.entries, state, auction_types, property_types,
                                        md.date))
        Dated(land, md) ==
            IF ~md.ok
            THEN [raised |-> TRUE, results |-> <<>>, cache |-> entries_cache,
                  trace |-> [NoTrace EXCEPT !.land = land]]
            ELSE Fetched(land, md,
                         GetEntriesCached(entries_cache, cache_ttl_seconds, clock, land, up))
        Resolved(land) ==
            IF land = NoLand
            THEN [raised |-> FALSE, results |-> <<>>, cache |-> entries_cache, trace |-> NoTrace]
            ELSE Dated(land, DateAddDays(today, min_days))
    IN  Resolved(ZVGBackend_resolve(state_map, state))

\* min_days = int(min_days_str), 0 on ValueError; parse_qs drops a blank value,
\* so a blank minDays is a missing one.
ServerMinDays(minDays) ==
    LET min_days_str == IF minDays.given /\ minDays.val # <<>> THEN minDays.val ELSE <<"0">>
        n == ParseInt(min_days_str)
    IN  IF n.ok THEN n.val ELSE 0

\* RequestHandler.do_GET
do_GET(req, up) ==
    IF req.path # API_SEARCH
    THEN [response |-> [status |-> 404, body |-> <<>>], cache |-> entries_cache, trace |-> NoTrace]
    ELSE
    LET Respond(r) ==
            [response |-> [status |-> IF r.raised THEN 500 ELSE 200, body |-> r.results],
             cache |-> r.cache, trace |-> r.trace]
    IN  Respond(ZVGBackend_search(req.state, CommaList(req.auctionTypes),
                                  CommaList(req.propertyTypes), ServerMinDays(req.minDays), up))

\* ------------------------------------------------------------------------
\* app.py: GET /api/search
\* ------------------------------------------------------------------------
\* minDays: int = 0 -- the framework answers 422 to a value that is no integer
app_MinDays(minDays) ==
    IF ~minDays.given THEN [ok |-> TRUE, val |-> 0] ELSE ParseInt(minDays.val)

app_search(req, up) ==
    LET Filtered(land, md, r) ==
            [response |-> [status |-> IF r.raised THEN 500 ELSE 200, body |-> r.results],
             trace |-> [NoTrace EXCEPT !.land = land, !.min_date = SomeDate(md.date),
                                       !.fetched = TRUE, !.portal_calls = 1,
                                       !.entries = up.entries, !.warnings = r.warnings]]
        Dated(land, md) ==
            IF ~md.ok
            THEN [response |-> [status |-> 500, body |-> <<>>],
                  trace |-> [NoTrace EXCEPT !.land = land]]
            ELSE IF up.tag = "raise"
            THEN [response |-> [status |-> 500, body |-> <<>>],
                  trace |-> [NoTrace EXCEPT !.land = land, !.min_date = SomeDate(md.date),
                                            !.fetched = TRUE, !.portal_calls = 1]]
            ELSE Filtered(land, md,
                          FilterEntries(FALSE, up.entries, req.state,
                                        CommaList(req.auctionTypes),
                                        CommaList(req.propertyTypes), md.date))
        Validated(md_param, land) ==
            IF ~md_param.ok
            THEN [response |-> [status |-> 422, body |-> <<>>], trace |-> NoTrace]
            ELSE IF land = NoLand
            THEN [response |-> [status |-> 400, body |-> <<>>], trace |-> NoTrace]
            ELSE Dated(land, DateAddDays(today, md_param.val))
    IN  Validated(app_MinDays(req.minDays), app_resolve(app_state_map, req.state))

\* ------------------------------------------------------------------------
\* Actions
\* ------------------------------------------------------------------------
MaxRequests == 2
MaxThreads == 2
TickSeconds == 900
MaxClock == 2700

ServerGet(req, up) ==
    /\ nreq < MaxRequests
    /\ LET Answer(r) ==
               /\ response' = r.response
               /\ trace' = r.trace
               /\ entries_cache' = r.cache
       IN  Answer(do_GET(req, up))
    /\ request' = [impl |-> "server", req |-> req, up |-> up]
    /\ nreq' = nreq + 1
    /\ UNCHANGED <<laender, state_map, app_state_map, cache_ttl_seconds, clock, today,
                   threads, refreshes, input, output>>

AppSearch(req, up) ==
    /\ nreq < MaxRequests
    /\ req.path = API_SEARCH
    /\ LET Answer(r) ==
               /\ response' = r.response
               /\ trace' = r.trace
       IN  Answer(app_search(req, up))
    /\ request' = [impl |-> "app", req |-> req, up |-> up]
    /\ nreq' = nreq + 1
    /\ UNCHANGED <<laender, state_map, app_state_map, cache_ttl_seconds, entries_cache, clock,
                   today, threads, refreshes, input, output>>

Tick ==
    /\ clock + TickSeconds <= MaxClock
    /\ clock' = clock + TickSeconds
    /\ UNCHANGED <<laender, state_map, app_state_map, cache_ttl_seconds, entries_cache, today,
                   nreq, request, response, trace, threads, refreshes, input, output>>

ServiceInit(enum, day, ttl) ==
    /\ laender = enum
    /\ state_map = BuildStateMap(EmptyDict, enum)
    /\ app_state_map = app_BuildStateMap(EmptyDict, enum)
    /\ cache_ttl_seconds = ttl
    /\ entries_cache = EmptyDict
    /\ clock = 0
    /\ today = day
    /\ nreq = 0
    /\ request = [impl |-> "none"]
    /\ response = [status |-> 0, body |-> <<>>]
    /\ trace = NoTrace
    /\ threads = [t \in 1..MaxThreads |->
                      [pc |-> "idle", land |-> NoLand, now |-> 0, entry |-> NoneValue,
                       entries |-> <<>>, result |-> NoneValue]]
    /\ refreshes = {}

\* ------------------------------------------------------------------------
\* The texts the requests and the upstream entries are made of: state names
\* (S_), auction types of entries (A_) and of allow-lists (Q_), location and
\* description texts (X_), candidate lists (P_), date texts (D_), streets
\* (R_), postal codes (Z_) and cities (O_).
\* ------------------------------------------------------------------------
Texts ==
    [ S_Bayern |->
          <<"B", "a", "y", "e", "r", "n">>,
      S_by |->
          <<"b", "y">>,
      S_BadenWuerttemberg |->
          <<"B", "a", "d", "e", "n", "-", "W", "u", "e", "r", "t", "t", "e", "m", "b", "e", "r",
          "g">>,
      S_bw |->
          <<"b", "w">>,
      S_Thueringen |->
          <<"T", "h", "u", "e", "r", "i", "n", "g", "e", "n">>,
      S_th |->
          <<"t", "h">>,
      S_BadenWuerttemberg_uml |->
          <<"B", "a", "d", "e", "n", "-", "W", UML_u, "r", "t", "t", "e", "m", "b", "e", "r",
          "g">>,
      S_Thueringen_uml |->
          <<"T", "h", UML_u, "r", "i", "n", "g", "e", "n">>,
      S_Atlantis |->
          <<"A", "t", "l", "a", "n", "t", "i", "s">>,
      S_bayern_padded |->
          <<" ", "b", "a", "y", "e", "r", "n", " ">>,
      S_BY |->
          <<"B", "Y">>,
      S_BW |->
          <<"B", "W">>,
      S_TH |->
          <<"T", "H">>,
      S_abc |->
          <<"a", "b", "c">>,
      S_3 |->
          <<"3">>,
      S_10 |->
          <<"1", "0">>,
      S_minus1 |->
          <<"-", "1">>,
      A_Zwang |->
          <<"Z", "w", "a", "n", "g", "s", "v", "e", "r", "s", "t", "e", "i", "g", "e", "r", "u",
          "n", "g">>,
      A_Zwang_padded |->
          <<" ", "Z", "w", "a", "n", "g", "s", "v", "e", "r", "s", "t", "e", "i", "g", "e", "r",
          "u", "n", "g", "\n">>,
      A_Teilung |->
          <<"T", "e", "i", "l", "u", "n", "g", "s", "v", "e", "r", "s", "t", "e", "i", "g", "e",
          "r", "u", "n", "g">>,
      A_blank |->
          <<" ", " ">>,
      A_moji |->
          <<"A", "u", "f", "k", "l", A_TILDE, CURREN, "r", "u", "n", "g">>,
      A_fixed |->
          <<"A", "u", "f", "k", "l", UML_a, "r", "u", "n", "g">>,
      Q_Zwang |->
          <<"Z", "w", "a", "n", "g", "s", "v", "e", "r", "s", "t", "e", "i", "g", "e", "r", "u",
          "n", "g">>,
      Q_Teilung_Zwang |->
          <<"T", "e", "i", "l", "u", "n", "g", "s", "v", "e", "r", "s", "t", "e", "i", "g", "e",
          "r", "u", "n", "g", ",", ",", "Z", "w", "a", "n", "g", "s", "v", "e", "r", "s", "t",
          "e", "i", "g", "e", "r", "u", "n", "g">>,
      Q_Teilung |->
          <<"T", "e", "i", "l", "u", "n", "g", "s", "v", "e", "r", "s", "t", "e", "i", "g", "e",
          "r", "u", "n", "g">>,
      Q_Zwang_padded |->
          <<" ", "Z", "w", "a", "n", "g", "s", "v", "e", "r", "s", "t", "e", "i", "g", "e", "r",
          "u", "n", "g", "\n", ",", "x">>,
      Q_fixed |->
          <<"A", "u", "f", "k", "l", UML_a, "r", "u", "n", "g">>,
      X_Reihenhaus |->
          <<"R", "e", "i", "h", "e", "n", "h", "a", "u", "s", " ", "m", "i", "t", " ", "G", "a",
          "r", "t", "e", "n">>,
      X_DoppelReihen |->
          <<"D", "o", "p", "p", "e", "l", "h", "a", "u", "s", ",", " ", "R", "E", "I", "H", "E",
          "N", "H", "A", "U", "S">>,
      X_Acker |->
          <<"A", "c", "k", "e", "r", ",", " ", "4", "5", " ", "W", "i", "e", "s", "e">>,
      X_Gewerbe |->
          <<"G", "E", "W", "E", "R", "B", "E", "F", "L", UML_A, "C", "H", "E">>,
      X_Hauptstr_fallback |->
          <<"H", "a", "u", "p", "t", "s", "t", "r", ".", " ", "1", "2", ",", " ", "4", "5", " ",
          "w", "e", "i", "t", "e", "r", "e", " ", "I", "n", "f", "o">>,
      X_moji |->
          <<"D", "o", "p", "p", "e", "l", "h", "a", "u", "s", "h", A_TILDE, CURREN, "l", "f",
          "t", "e">>,
      X_Reihen |->
          <<"R", "e", "i", "h", "e", "n">>,
      X_haus |->
          <<"h", "a", "u", "s">>,
      P_Reihenhaus |->
          <<"R", "e", "i", "h", "e", "n", "h", "a", "u", "s">>,
      P_Doppel_Reihen |->
          <<"D", "o", "p", "p", "e", "l", "h", "a", "u", "s", "h", UML_a, "l", "f", "t", "e",
          ",", "R", "e", "i", "h", "e", "n", "h", "a", "u", "s">>,
      P_Reihen_Doppel |->
          <<"R", "e", "i", "h", "e", "n", "h", "a", "u", "s", ",", ",", "D", "o", "p", "p", "e",
          "l", "h", "a", "u", "s", "h", UML_a, "l", "f", "t", "e">>,
      P_Villa |->
          <<"V", "i", "l", "l", "a">>,
      P_Gewerbe_Villa |->
          <<"V", "i", "l", "l", "a", ",", "G", "e", "w", "e", "r", "b", "e", "e", "i", "n", "h",
          "e", "i", "t">>,
      D_Aug11 |->
          <<"M", "o", "n", "t", "a", "g", ",", " ", "1", "1", ".", " ", "A", "u", "g", "u", "s",
          "t", " ", "2", "0", "2", "5", ",", " ", "9", ":", "0", "5", " ", "U", "h", "r">>,
      D_Aug04 |->
          <<"M", "o", "n", "t", "a", "g", ",", " ", "0", "4", ".", " ", "A", "u", "g", "u", "s",
          "t", " ", "2", "0", "2", "5", ",", " ", "1", "0", ":", "0", "0", " ", "U", "h", "r">>,
      D_bald |->
          <<"b", "a", "l", "d">>,
      D_moji |->
          <<"S", "a", "m", "s", "t", "a", "g", ",", " ", "0", "7", ".", " ", "M", A_TILDE,
          CURREN, "r", "z", " ", "2", "0", "2", "6", ",", " ", "1", "0", ":", "0", "0", " ",
          "U", "h", "r">>,
      D_Aug08_nouhr |->
          <<"F", "r", "e", "i", "t", "a", "g", ",", " ", "8", " ", "A", "u", "g", "u", "s", "t",
          " ", "2", "0", "2", "5", ",", " ", "2", "3", ":", "5", "9">>,
      R_Hauptstr12 |->
          <<"H", "a", "u", "p", "t", "s", "t", "r", ".", " ", "1", "2">>,
      R_Hauptstr |->
          <<"H", "a", "u", "p", "t", "s", "t", "r", ".">>,
      R_12Hauptstr |->
          <<"1", "2", " ", "H", "a", "u", "p", "t", "s", "t", "r", ".">>,
      R_AmRing |->
          <<" ", " ", "A", "m", " ", "R", "i", "n", "g", " ", " ", "7", "a", " ">>,
      R_Weg |->
          <<"W", "e", "g", " ", "3", "\n", "H", "o", "f">>,
      R_Juni |->
          <<"S", "t", "r", ".", " ", "d", ".", " ", "1", "7", ".", " ", "J", "u", "n", "i", " ",
          "1">>,
      R_blank |->
          <<" ">>,
      R_moji |->
          <<"F", A_TILDE, CURREN, "h", "r", "w", "e", "g", " ", "5">>,
      R_newline_end |->
          <<"W", "e", "g", " ", "3", " ", "\n">>,
      Z_80331 |->
          <<"8", "0", "3", "3", "1">>,
      Z_moji |->
          <<A_CIRC, FRAC14>>,
      O_Muenchen |->
          <<"M", UML_u, "n", "c", "h", "e", "n">>,
      O_moji |->
          <<"M", A_TILDE, FRAC14, "n", "c", "h", "e", "n">>,
      O_euro |->
          <<A_TILDE, EURO, "o">>,
      S_Montag |->
          <<"M", "o", "n", "t", "a", "g">>,
      S_August |->
          <<"A", "u", "g", "u", "s", "t">>,
      S_Mai |->
          <<"M", "a", "i">>,
      S_Maerz |->
          <<"M", UML_a, "r", "z">>,
      S_Februar |->
          <<"F", "e", "b", "r", "u", "a", "r">>,
      S_Uhr |->
          <<"U", "h", "r">> ]

\* ------------------------------------------------------------------------
\* The lands the upstream provider enumerates, and its enumerations.
\* ------------------------------------------------------------------------
Land(name, short) == [name |-> name, short |-> short]

LandPool ==
    { Land(Texts.S_Bayern, Texts.S_by), Land(Texts.S_BadenWuerttemberg, Texts.S_bw), Land(Texts.S_Thueringen, Texts.S_th) }

MaxLaender == 2

RECURSIVE Enumerations(_)
Enumerations(n) ==
    IF n = 0 THEN { <<>> }
    ELSE LET shorter == Enumerations(n - 1)
         IN  shorter \cup { Append(e, l) : e \in {x \in shorter : Len(x) = n - 1},
                                            l \in LandPool }

\* portal.get_laender(): every land once
LaenderChoices ==
    { e \in Enumerations(MaxLaender) :
        e # <<>> /\ \A i, j \in 1..Len(e) : i # j => e[i] # e[j] }

DefaultLaender == <<Land(Texts.S_Bayern, Texts.S_by), Land(Texts.S_BadenWuerttemberg, Texts.S_bw)>>

Today == [year |-> 2025, month |-> 8, day |-> 5]

\* ------------------------------------------------------------------------
\* Raw entries.  The base entry is five days ahead, of the first auction
\* type, without texts, with a structured address; every other entry differs
\* from it in one respect.
\* ------------------------------------------------------------------------
ObjektEntry(id, tad, tas, art, lage, beschreibung, adresse) ==
    [kind |-> "ObjektEntry", zvg_id |-> id, termin_as_date |-> tad, termin_as_str |-> tas,
     art_der_versteigerung |-> art, objekt_lage |-> lage, beschreibung |-> beschreibung,
     adresse |-> adresse]

OtherEntry(id) == [kind |-> "RawEntry", zvg_id |-> id]

BaseTermin == Datetime(2025, 8, 10, 10, 0)
BaseAdresse == Adresse(Texts.R_Hauptstr12, Texts.Z_80331, Texts.O_Muenchen)

DateEntries ==
    << ObjektEntry(1, BaseTermin, <<>>, Texts.A_Zwang, <<>>, <<>>, BaseAdresse),
       ObjektEntry(2, NoneValue, Texts.D_Aug11, Texts.A_Zwang, <<>>, <<>>, BaseAdresse),
       ObjektEntry(3, NoneValue, Texts.D_Aug04, Texts.A_Zwang, <<>>, <<>>, BaseAdresse),
       ObjektEntry(4, NoneValue, Texts.D_bald, Texts.A_Zwang, <<>>, <<>>, BaseAdresse),
       ObjektEntry(5, NoneValue, <<>>, Texts.A_Zwang, <<>>, <<>>, BaseAdresse),
       ObjektEntry(6, Datetime(2025, 8, 5, 0, 0), Texts.D_Aug11, Texts.A_Zwang, <<>>, <<>>, BaseAdresse),
       ObjektEntry(7, Malformed, Texts.D_Aug11, Texts.A_Zwang, <<>>, <<>>, BaseAdresse),
       ObjektEntry(8, NoneValue, Texts.D_moji, Texts.A_Zwang, <<>>, <<>>, BaseAdresse),
       ObjektEntry(9, Datetime(2025, 8, 8, 23, 59), <<>>, Texts.A_Zwang, <<>>, <<>>, BaseAdresse),
       ObjektEntry(10, Datetime(2025, 8, 4, 23, 59), Texts.D_Aug11, Texts.A_Zwang, <<>>, <<>>, BaseAdresse),
       ObjektEntry(11, NoneValue, Texts.D_Aug08_nouhr, Texts.A_Zwang, <<>>, <<>>, BaseAdresse) >>

ArtEntries ==
    << ObjektEntry(21, BaseTermin, <<>>, <<>>, <<>>, <<>>, BaseAdresse),
       ObjektEntry(22, BaseTermin, <<>>, Texts.A_blank, <<>>, <<>>, BaseAdresse),
       ObjektEntry(23, BaseTermin, <<>>, Texts.A_Zwang_padded, <<>>, <<>>, BaseAdresse),
       ObjektEntry(24, BaseTermin, <<>>, Texts.A_Teilung, <<>>, <<>>, BaseAdresse),
       ObjektEntry(25, BaseTermin, <<>>, Texts.A_moji, <<>>, <<>>, BaseAdresse),
       ObjektEntry(26, BaseTermin, <<>>, Texts.A_fixed, <<>>, <<>>, BaseAdresse) >>

TextEntries ==
    << ObjektEntry(31, BaseTermin, <<>>, Texts.A_Zwang, Texts.X_Reihenhaus, <<>>, BaseAdresse),
       ObjektEntry(32, BaseTermin, <<>>, Texts.A_Zwang, <<>>, Texts.X_DoppelReihen, BaseAdresse),
       ObjektEntry(33, BaseTermin, <<>>, Texts.A_Zwang, Texts.X_Acker, Texts.X_Acker, BaseAdresse),
       ObjektEntry(34, BaseTermin, <<>>, Texts.A_Zwang, Texts.X_Acker, Texts.X_Gewerbe, BaseAdresse),
       ObjektEntry(35, BaseTermin, <<>>, Texts.A_Zwang, Texts.X_moji, <<>>, BaseAdresse),
       ObjektEntry(36, BaseTermin, <<>>, Texts.A_Zwang, Texts.X_Reihen, Texts.X_haus, BaseAdresse) >>

AddressEntries ==
    << ObjektEntry(41, BaseTermin, <<>>, Texts.A_Zwang, <<>>, <<>>, Adresse(Texts.R_Hauptstr, Texts.Z_80331, Texts.O_Muenchen)),
       ObjektEntry(42, BaseTermin, <<>>, Texts.A_Zwang, <<>>, <<>>, Adresse(Texts.R_12Hauptstr, Texts.Z_80331, Texts.O_Muenchen)),
       ObjektEntry(43, BaseTermin, <<>>, Texts.A_Zwang, <<>>, <<>>, Adresse(Texts.R_AmRing, <<>>, Texts.O_moji)),
       ObjektEntry(44, BaseTermin, <<>>, Texts.A_Zwang, <<>>, <<>>, Adresse(Texts.R_Weg, Texts.Z_moji, <<>>)),
       ObjektEntry(45, BaseTermin, <<>>, Texts.A_Zwang, <<>>, <<>>, Adresse(Texts.R_Juni, Texts.Z_80331, Texts.O_euro)),
       ObjektEntry(46, BaseTermin, <<>>, Texts.A_Zwang, <<>>, <<>>, Adresse(Texts.R_blank, Texts.Z_80331, Texts.O_Muenchen)),
       ObjektEntry(47, BaseTermin, <<>>, Texts.A_Zwang, <<>>, <<>>, Adresse(<<>>, <<>>, <<>>)),
       ObjektEntry(48, BaseTermin, <<>>, Texts.A_Zwang, <<>>, <<>>, Adresse(Texts.R_moji, Texts.Z_80331, Texts.O_Muenchen)),
       ObjektEntry(49, BaseTermin, <<>>, Texts.A_Zwang, <<>>, <<>>, Adresse(Texts.R_newline_end, Texts.Z_80331, Texts.O_Muenchen)),
       ObjektEntry(50, BaseTermin, <<>>, Texts.A_Zwang, Texts.X_Hauptstr_fallback, <<>>, NoAdresse),
       ObjektEntry(51, BaseTermin, <<>>, Texts.A_Zwang, Texts.X_Reihen, <<>>, NoAdresse),
       ObjektEntry(52, BaseTermin, <<>>, Texts.A_Zwang, <<>>, <<>>, NoAdresse),
       ObjektEntry(53, BaseTermin, <<>>, Texts.A_Zwang, Texts.X_Reihenhaus, <<>>, Malformed) >>

SeqRange(seq) == {seq[i] : i \in 1..Len(seq)}

Catalogue ==
    SeqRange(DateEntries) \cup SeqRange(ArtEntries) \cup SeqRange(TextEntries)
    \cup SeqRange(AddressEntries)

\* Entries that meet in one batch: good ones, excluded ones, one that faults
\* at its date, one that faults at its address, one that is no ObjektEntry.
MixPool ==
    << DateEntries[1], DateEntries[3], DateEntries[7], AddressEntries[13], OtherEntry(60),
       TextEntries[1] >>

MaxBatch == 2

RECURSIVE MixBatches(_)
MixBatches(n) ==
    IF n = 0 THEN { <<>> }
    ELSE LET shorter == MixBatches(n - 1)
         IN  shorter \cup { Append(b, MixPool[i]) : b \in {x \in shorter : Len(x) = n - 1},
                                                    i \in 1..Len(MixPool) }

Batches ==
    { <<e>> : e \in Catalogue }
    \cup { b \in MixBatches(MaxBatch) : \A i, j \in 1..Len(b) : i # j => b[i] # b[j] }

Entries(b) == [tag |-> "entries", entries |-> b]

Given(v) == [given |-> TRUE, val |-> v]
Missing == [given |-> FALSE, val |-> <<>>]

Request(path, state, auctionTypes, propertyTypes, minDays) ==
    [path |-> path, state |-> state, auctionTypes |-> auctionTypes,
     propertyTypes |-> propertyTypes, minDays |-> minDays]


\* One request to each implementation, for every filter setting and batch.
PipelineInputs ==
    [fn : {"server", "app"},
     req : { Request(API_SEARCH, Texts.S_Bayern, a, p, m) :
               a \in { <<>>, Texts.Q_Zwang, Texts.Q_Teilung_Zwang, Texts.Q_Zwang_padded,
                       Texts.Q_fixed },
               p \in { <<>>, Texts.P_Reihenhaus, Texts.P_Doppel_Reihen, Texts.P_Reihen_Doppel,
                       Texts.P_Villa, Texts.P_Gewerbe_Villa },
               m \in { Missing, Given(Texts.S_3), Given(Texts.S_10) } },
     up : { Entries(b) : b \in Batches }]

\* One request to each implementation, for every state string and minDays.
RegistryInputs ==
    [fn : {"server", "app"},
     req : { Request(API_SEARCH, s, <<>>, <<>>, m) :
               s \in { Texts.S_Bayern, Texts.S_BadenWuerttemberg, Texts.S_Thueringen,
                       Texts.S_BadenWuerttemberg_uml, Texts.S_Thueringen_uml, Texts.S_BY,
                       Texts.S_BW, Texts.S_TH, Texts.S_by, Lower(Texts.S_Bayern),
                       Texts.S_bayern_padded, Texts.S_Atlantis, <<>> },
               m \in { Missing, Given(<<>>), Given(Texts.S_abc), Given(Texts.S_3),
                       Given(Texts.S_10), Given(Texts.S_minus1) } },
     up : { Entries(<<DateEntries[1]>>), Raise("ConnectionError") }]

\* The requests and upstream outcomes of the running service.
ServiceRequests ==
    { Request(API_SEARCH, s, <<>>, <<>>, m) :
        s \in {Texts.S_Bayern, Texts.S_BW, Texts.S_Atlantis},
        m \in {Missing, Given(Texts.S_abc), Given(Texts.S_3)} }
    \cup { Request("/", <<>>, <<>>, <<>>, Missing) }

ServiceUpstreams ==
    { Entries(<<DateEntries[1]>>), Entries(<<DateEntries[9], DateEntries[7]>>),
      Raise("ConnectionError") }

\* Structured addresses: every street over a small alphabet, and one in need
\* of repair.
MaxStreetLen == 4

RECURSIVE Streets(_)
Streets(n) ==
    IF n = 0 THEN { <<>> }
    ELSE LET shorter == Streets(n - 1)
         IN  shorter \cup { Append(x, c) : x \in {y \in shorter : Len(y) = n - 1},
                                            c \in {"a", " ", "1", "\n"} }

AddressInputs ==
    [fn : {"address"}, fix : BOOLEAN,
     adresse : { Adresse(st, pc[1], pc[2]) :
                   st \in Streets(MaxStreetLen) \cup {Texts.R_moji, Texts.R_Hauptstr12, Texts.R_12Hauptstr},
                   pc \in { <<Texts.Z_80331, Texts.O_Muenchen>>, <<Texts.Z_moji, Texts.O_moji>>, <<<<>>, Texts.O_euro>> } }]
\* ------------------------------------------------------------------------
\* Inputs of the date parser: strings put together from segments.
\* ------------------------------------------------------------------------
DayTokens == { <<"0", "7", ".">>, <<"7", ".">>, <<"7">>, <<"x", "7", ".">>, <<"3", "1", ".">>,
               <<"3", "0", ".">>, <<"2", "9", ".">>, <<"0", ".">>, <<"1", "_", "0", ".">> }
MonthTokens == { Texts.S_August, Texts.S_Mai, Texts.S_Maerz, Texts.S_Februar, Lower(Texts.S_August), <<"F", "o", "o">>,
                 <<"8">> }
YearTokens == { <<"2", "0", "2", "5">>, <<"2", "0", "2", "4">>, <<"2", "0", "x", "5">>,
                <<"0">> }
DateSegments ==
    { <<" ">> \o d \o <<" ">> \o m \o <<" ">> \o y : d \in DayTokens, m \in MonthTokens, y \in YearTokens }
    \cup { <<" ", "0", "7", ".", " ">> \o Texts.S_August,
           <<" ", "0", "7", ".", " ">> \o Texts.S_August \o <<" ", "2", "0", "2", "5", " ", "n", ".", "C", "h", "r">>,
           <<" ", "0", "7", ".", "0", "8", ".", "2", "0", "2", "5">>,
           <<>> }
TimeSegments ==
    { <<" ", "1", "0", ":", "0", "0", " ">> \o Texts.S_Uhr,
      <<" ", "9", ":", "0", "5", " ">> \o Lower(Texts.S_Uhr),
      <<" ", "1", "0", ":", "0", "0">>,
      <<" ", "1", "0", ".", "0", "0", " ">> \o Texts.S_Uhr,
      <<" ", "1", "0", ":", "0", "0", ":", "0", "0", " ">> \o Texts.S_Uhr,
      <<" ", "2", "4", ":", "0", "0", " ">> \o Texts.S_Uhr,
      <<" ", "1", "0", ":", "6", "0", " ">> \o Texts.S_Uhr,
      <<" ", "a", "b", ":", "0", "0", " ">> \o Texts.S_Uhr,
      <<" ", "1", "0", ":", "x", " ">> \o Texts.S_Uhr,
      <<" ", "1", "0", " ">> \o Texts.S_Uhr,
      <<" ">> \o Texts.S_Uhr,
      <<>> }
Tails == { <<>>, <<",", " ", "S", "a", "a", "l", " ", "2">> }

ParseInputs ==
    { Texts.S_Montag \o <<",">> \o d \o <<",">> \o t \o x : d \in DateSegments, t \in TimeSegments, x \in Tails }
    \cup { Texts.S_Montag \o <<",">> \o d : d \in DateSegments }
    \cup { d \o <<" ">> \o t : d \in DateSegments, t \in TimeSegments }


\* ------------------------------------------------------------------------
\* Specifications
\* ------------------------------------------------------------------------
Pending == [tag |-> "pending"]

\* The running service: requests to both implementations, and time passing.
Init ==
    /\ ServiceInit(DefaultLaender, Today, DEFAULT_TTL)
    /\ input = [fn |-> "none"]
    /\ output = Pending

Next ==
    \/ \E req \in ServiceRequests, up \in ServiceUpstreams : ServerGet(req, up)
    \/ \E req \in ServiceRequests, up \in ServiceUpstreams : AppSearch(req, up)
    \/ Tick

Spec == Init /\ [][Next]_vars

\* One request, drawn at the start, served by the implementation it names.
ServeInput ==
    /\ nreq = 0
    /\ \/ input.fn = "server" /\ ServerGet(input.req, input.up)
       \/ input.fn = "app" /\ AppSearch(input.req, input.up)

InitPipeline ==
    /\ ServiceInit(DefaultLaender, Today, DEFAULT_TTL)
    /\ input \in PipelineInputs
    /\ output = Pending

SpecPipeline == InitPipeline /\ [][ServeInput]_vars

InitRegistry ==
    /\ \E enum \in LaenderChoices : ServiceInit(enum, Today, DEFAULT_TTL)
    /\ input \in RegistryInputs
    /\ output = Pending

SpecRegistry == InitRegistry /\ [][ServeInput]_vars

\* The date parser applied to one string drawn at the start.
ApplyParse ==
    /\ input.fn = "parse"
    /\ output = Pending
    /\ output' = GermanDateParser_parse(input.s)
    /\ UNCHANGED svars
    /\ UNCHANGED input

InitParse ==
    /\ ServiceInit(DefaultLaender, Today, DEFAULT_TTL)
    /\ input \in [fn : {"parse"}, s : ParseInputs]
    /\ output = Pending

SpecParse == InitParse /\ [][ApplyParse]_vars

\* The decomposition of one structured address drawn at the start, with the
\* repair of the encoding (server.py) or without it (app.py).
ApplyAddress ==
    /\ input.fn = "address"
    /\ output = Pending
    /\ output' = StructuredAddress(input.fix, input.adresse)
    /\ UNCHANGED svars
    /\ UNCHANGED input

InitAddress ==
    /\ ServiceInit(DefaultLaender, Today, DEFAULT_TTL)
    /\ input \in AddressInputs
    /\ output = Pending

SpecAddress == InitAddress /\ [][ApplyAddress]_vars

\* ------------------------------------------------------------------------
\* _get_entries_cached called by several threads at once: one action a line
\* that reads or writes what the threads share (the clock, the cache, the
\* upstream).  The locals of a call are its own.
\* ------------------------------------------------------------------------
MaxFetches == 2

\* key = land.name; now = time.time()
FetchBegin(t, land) ==
    /\ threads[t].pc \in {"idle", "done"}
    /\ nreq < MaxFetches
    /\ nreq' = nreq + 1
    /\ threads' = [threads EXCEPT ![t] = [pc |-> "get", land |-> land, now |-> clock,
                                          entry |-> NoneValue, entries |-> <<>>,
                                          result |-> NoneValue]]
    /\ UNCHANGED <<laender, state_map, app_state_map, cache_ttl_seconds, entries_cache, clock,
                   today, request, response, trace, refreshes, input, output>>

\* entry = self._entries_cache.get(key)
FetchGet(t) ==
    /\ threads[t].pc = "get"
    /\ LET key == threads[t].land.name
       IN  threads' = [threads EXCEPT ![t].pc = "check",
                                      ![t].entry = IF key \in DOMAIN entries_cache
                                                   THEN entries_cache[key] ELSE NoneValue]
    /\ UNCHANGED <<laender, state_map, app_state_map, cache_ttl_seconds, entries_cache, clock,
                   today, nreq, request, response, trace, refreshes, input, output>>

\* if entry and (now - entry['ts'] < self._cache_ttl_seconds): return entry['entries']
FetchCheck(t) ==
    /\ threads[t].pc = "check"
    /\ LET th == threads[t]
           key == th.land.name
           seen == IF th.entry = NoneValue THEN EmptyDict ELSE DictSet(EmptyDict, key, th.entry)
       IN  threads' = IF CacheFresh(seen, key, th.now, cache_ttl_seconds)
                      THEN [threads EXCEPT ![t].pc = "done", ![t].result = Entries(th.entry.entries)]
                      ELSE [threads EXCEPT ![t].pc = "list"]
    /\ UNCHANGED <<laender, state_map, app_state_map, cache_ttl_seconds, entries_cache, clock,
                   today, nreq, request, response, trace, refreshes, input, output>>

\* entries = list(self.portal.list(land)): the call returns a list, or it
\* raises and the fault leaves _get_entries_cached
FetchList(t, up) ==
    /\ threads[t].pc = "list"
    /\ IF up.tag = "raise"
       THEN /\ threads' = [threads EXCEPT ![t].pc = "done", ![t].result = up]
            /\ UNCHANGED refreshes
       ELSE /\ threads' = [threads EXCEPT ![t].pc = "store", ![t].entries = up.entries]
            /\ refreshes' = refreshes \cup {[land |-> threads[t].land.name,
                                             ts |-> threads[t].now, entries |-> up.entries]}
    /\ UNCHANGED <<laender, state_map, app_state_map, cache_ttl_seconds, entries_cache, clock,
                   today, nreq, request, response, trace, input, output>>

\* self._entries_cache[key] = {'ts': now, 'entries': entries}; return entries
FetchStore(t) ==
    /\ threads[t].pc = "store"
    /\ entries_cache' = StoreSlot(entries_cache, threads[t].land.name, threads[t].now,
                                  threads[t].entries)
    /\ threads' = [threads EXCEPT ![t].pc = "done", ![t].result = Entries(threads[t].entries)]
    /\ UNCHANGED <<laender, state_map, app_state_map, cache_ttl_seconds, clock,
                   today, nreq, request, response, trace, refreshes, input, output>>

InitRace ==
    /\ ServiceInit(DefaultLaender, Today, DEFAULT_TTL)
    /\ input = [fn |-> "none"]
    /\ output = Pending

NextRace ==
    \/ \E t \in 1..MaxThreads, i \in 1..Len(laender) : FetchBegin(t, laender[i])
    \/ \E t \in 1..MaxThreads : FetchGet(t)
    \/ \E t \in 1..MaxThreads : FetchCheck(t)
    \/ \E t \in 1..MaxThreads, up \in ServiceUpstreams : FetchList(t, up)
    \/ \E t \in 1..MaxThreads : FetchStore(t)
    \/ Tick

SpecRace == InitRace /\ [][NextRace]_vars

\* ------------------------------------------------------------------------
\* Properties
\* ------------------------------------------------------------------------
\* The request just served, by one of the two implementations.
Served(impl) == nreq > 0 /\ request.impl = impl

MinDaysNumeric(minDays) == ~minDays.given \/ ParseInt(minDays.val).ok

\* The state string of the last request resolves in the registry of the
\* implementation that served it.
StateResolves ==
    IF request.impl = "server" THEN request.req.state \in DOMAIN state_map
    ELSE app_resolve(app_state_map, request.req.state) # NoLand

\* C1: a fetch of the server for a land whose slot exists and is younger than
\* the time-to-live returns the stored entries, calls the upstream zero times
\* and leaves the cache as it is; any other fetch calls the upstream exactly
\* once and, when that call returns, the land's slot becomes the returned
\* entries with the time of the fetch, the other slots staying as they are.
C1_CacheFetch ==
    [][(request'.impl = "server" /\ nreq' = nreq + 1 /\ trace'.fetched) =>
          LET key == trace'.land.name
              up == request'.up
          IN  IF key \in DOMAIN entries_cache
                 /\ clock - entries_cache[key].ts < cache_ttl_seconds
              THEN /\ trace'.portal_calls = 0
                   /\ trace'.entries = entries_cache[key].entries
                   /\ entries_cache' = entries_cache
              ELSE /\ trace'.portal_calls = 1
                   /\ up.tag = "entries" =>
                        /\ trace'.entries = up.entries
                        /\ DOMAIN entries_cache' = DOMAIN entries_cache \cup {key}
                        /\ entries_cache'[key] = [ts |-> clock, entries |-> up.entries]
                        /\ \A k \in DOMAIN entries_cache :
                               k # key => entries_cache'[k] = entries_cache[k]]_vars

\* A fetch served from a slot of positive age, and a slot refreshed at or
\* after the time-to-live.
C1_Witness ==
    /\ Served("server")
    /\ trace.fetched
    /\ trace.portal_calls = 0
    /\ clock > entries_cache[trace.land.name].ts
    /\ \E k \in DOMAIN entries_cache : entries_cache[k].ts >= cache_ttl_seconds

\* The forms of a land's name that a request may give.
C2_NameForms(land) ==
    {land.name, ReplaceEach(land.name, rep_map), ReplaceEach(land.name, umlaut_map),
     Upper(land.short)}

\* C2: for every enumerated land, a request whose state is the land's
\* canonical name, its umlaut variant, its digraph variant or its upper-case
\* short code resolves to that land.
C2_Resolution ==
    (nreq = 1 /\ MinDaysNumeric(request.req.minDays)) =>
        \A i \in 1..Len(laender) :
            request.req.state \in C2_NameForms(laender[i]) => trace.land = laender[i]

\* C3: a request whose state resolves to no land is answered with a client
\* error and touches neither the cache nor the upstream.
C3_UnknownStateRejected ==
    (nreq = 1 /\ ~StateResolves) =>
        /\ response.status \in 400..499
        /\ ~trace.fetched
        /\ trace.portal_calls = 0
        /\ entries_cache = EmptyDict

\* C10: a request whose minDays is missing or no number is not rejected, and
\* its search runs with min_date = today.
C10_MinDaysDefaulted ==
    (nreq = 1 /\ StateResolves
       /\ (~request.req.minDays.given \/ ~ParseInt(request.req.minDays.val).ok)) =>
        /\ response.status \notin 400..499
        /\ trace.min_date = SomeDate(today)

\* What the last request asked for, and what its search worked with.
ReqFix == request.impl = "server"
ReqEntries == request.up.entries
ReqAuctionTypes == CommaList(request.req.auctionTypes)
ReqPropertyTypes == CommaList(request.req.propertyTypes)
ReqMinDate ==
    DateAddDays(today, IF request.req.minDays.given THEN ParseInt(request.req.minDays.val).val
                       ELSE 0).date

\* The last request went through the loop over the entries of its batch.
Searched == nreq = 1 /\ trace.fetched /\ request.up.tag = "entries"

\* The listings of the batch of the last request under other filters.
SearchWith(raws, auction_types, property_types) ==
    FilterEntries(ReqFix, raws, request.req.state, auction_types, property_types,
                  ReqMinDate).results

EntryOf(id) ==
    ReqEntries[CHOOSE j \in 1..Len(ReqEntries) : ReqEntries[j].zvg_id = id]

\* C4: every listing of a search comes from an entry of the batch whose
\* timestamp (the structured field, else the parsed text) is valid, shows the
\* date of that timestamp, and that date is not before today + minDays.
C4_DateFilter ==
    Searched =>
        \A i \in 1..Len(response.body) :
            \E j \in 1..Len(ReqEntries) :
                /\ ReqEntries[j].kind = "ObjektEntry"
                /\ ReqEntries[j].zvg_id = response.body[i].id
                /\ LET t == AuctionDate(ReqFix, ReqEntries[j])
                   IN  /\ t.tag = "datetime"
                       /\ response.body[i].date = FormatDate(t)
                       /\ ~DateLess(DateOf(t), ReqMinDate)

\* A search that returned a listing and left out an entry dated before min_date.
C4_Witness ==
    /\ Searched
    /\ response.body # <<>>
    /\ \E j \in 1..Len(ReqEntries) :
           /\ ReqEntries[j].kind = "ObjektEntry"
           /\ AuctionDate(ReqFix, ReqEntries[j]).tag = "datetime"
           /\ DateLess(DateOf(AuctionDate(ReqFix, ReqEntries[j])), ReqMinDate)

\* An entry with a field whose use raises.
C5_Malformed(e) ==
    e.kind = "ObjektEntry"
    /\ (e.termin_as_date.tag = "malformed" \/ e.adresse.tag = "malformed")

C5_WellFormed(e) == ~C5_Malformed(e)

\* C5: a search over a batch with entries whose fields are malformed answers
\* normally, with the listings of the same batch without those entries.
C5_Isolation ==
    Searched =>
        /\ response.status = 200
        /\ response.body =
               SearchWith(SelectSeq(ReqEntries, C5_WellFormed), ReqAuctionTypes, ReqPropertyTypes)

\* A search that skipped a faulting entry and returned a listing of another.
C5_Witness ==
    /\ Searched
    /\ trace.warnings # <<>>
    /\ response.body # <<>>

\* The label of a text: that of the first candidate with a keyword in it.
C6_Label(text, candidates) ==
    LET hits == {i \in 1..Len(candidates) : KeywordHit(text, candidates[i])}
    IN  IF hits = {} THEN <<>>
        ELSE candidates[CHOOSE i \in hits : \A j \in hits : i <= j]

RECURSIVE C6_Expected(_, _)
C6_Expected(listings, candidates) ==
    IF listings = <<>> THEN <<>>
    ELSE LET l == Head(listings)
             label == C6_Label(CombinedText(ReqFix, EntryOf(l.id)), candidates)
             rest == C6_Expected(Tail(listings), candidates)
         IN  IF candidates = <<>> THEN <<[l EXCEPT !.propertyType = <<>>]>> \o rest
             ELSE IF label = <<>> THEN rest
             ELSE <<[l EXCEPT !.propertyType = label]>> \o rest

\* C6: with no candidates every entry is kept and labelled ""; with
\* candidates an entry is kept when a keyword of some candidate occurs in its
\* combined text, under the label of the first such candidate in the caller's
\* order, and is left out when none does.
C6_PropertyType ==
    Searched =>
        response.body =
            C6_Expected(SearchWith(ReqEntries, ReqAuctionTypes, <<>>), ReqPropertyTypes)

\* A listing labelled with the first candidate although a keyword of the
\* second candidate, which stands first in the table, occurs in its text too.
C6_Witness ==
    /\ Searched
    /\ ReqPropertyTypes = <<L_Doppelhaushaelfte, L_Reihenhaus>>
    /\ \E i \in 1..Len(response.body) :
           /\ response.body[i].propertyType = L_Doppelhaushaelfte
           /\ KeywordHit(CombinedText(ReqFix, EntryOf(response.body[i].id)), L_Reihenhaus)

\* The filter as a predicate of an auction-type string and an allow-list.
C7_Passes(art, allow) == allow = <<>> \/ art = <<>> \/ InSeq(art, allow)

\* C7: an entry passes the auction-type filter exactly when the allow-list is
\* empty, or its auction type without the surrounding whitespace (and, in
\* server.py, with its encoding repaired) is empty or is an element of the
\* allow-list.  That normalised string is the auctionType of the listing.
C7_AuctionType ==
    Searched =>
        LET Passes(l) == C7_Passes(l.auctionType, ReqAuctionTypes)
        IN  response.body = SelectSeq(SearchWith(ReqEntries, <<>>, ReqPropertyTypes), Passes)

\* C7 as stated, the auction-type string being the one of the raw entry.
C7_AuctionTypeRaw ==
    Searched =>
        LET Passes(l) == C7_Passes(EntryOf(l.id).art_der_versteigerung, ReqAuctionTypes)
        IN  response.body = SelectSeq(SearchWith(ReqEntries, <<>>, ReqPropertyTypes), Passes)

\* A search with an allow-list that left out an entry for its auction type.
C7_Witness ==
    /\ Searched
    /\ ReqAuctionTypes # <<>>
    /\ Len(response.body) < Len(SearchWith(ReqEntries, <<>>, ReqPropertyTypes))

\* The segments and tokens that parse takes from a string.
C8_Parts(s) == Split(s, ",")

C8_DateTokens(s) == SplitWS(Replace(C8_Parts(s)[2], <<".">>, <<>>))

C8_TimeParts(s) ==
    LET t == Strip(C8_Parts(s)[3])
    IN  Split(IF EndsWith(Lower(t), UHR) THEN Strip(SubSeq(t, 1, Len(t) - 3)) ELSE t, ":")

\* No digit at all, or a character that no integer literal has.
C8_NonNumeric(tok) ==
    \/ \A i \in 1..Len(tok) : tok[i] \notin Digit
    \/ \E i \in 1..Len(tok) : tok[i] \notin (Digit \cup {"+", "-", "_"} \cup WS)

C8_Deviates(s) ==
    \/ Len(C8_Parts(s)) < 3
    \/ Len(C8_DateTokens(s)) # 3
    \/ C8_NonNumeric(C8_DateTokens(s)[1])
    \/ C8_NonNumeric(C8_DateTokens(s)[3])
    \/ \A i \in 1..Len(MONTHS) : MONTHS[i] # C8_DateTokens(s)[2]
    \/ Len(C8_TimeParts(s)) # 2
    \/ C8_NonNumeric(C8_TimeParts(s)[1])
    \/ C8_NonNumeric(C8_TimeParts(s)[2])

\* C8: parse returns a timestamp or None and raises nothing, and it returns
\* None for a string with fewer than three comma segments, with a date
\* segment that has not three tokens once its dots are removed, with a day,
\* year, hour or minute that is no number, with a month that is not in the
\* table, or with a time segment that is not two parts around one colon.
C8_ParserTotal ==
    (input.fn = "parse" /\ output # Pending) =>
        /\ output.tag \in {"None", "datetime"}
        /\ C8_Deviates(input.s) => output = NoneValue

\* A string of three comma segments on which the body of parse raised, and
\* parse returned None.
C8_Witness ==
    /\ input.fn = "parse"
    /\ output = NoneValue
    /\ Len(C8_Parts(input.s)) >= 3
    /\ ParseTry(input.s).tag = "raise"

\* The place of the first digit of a street, and the parts around it.
C9_FirstDigit(s) ==
    LET ds == {i \in 1..Len(s) : s[i] \in Digit}
    IN  IF ds = {} THEN Len(s) + 1 ELSE CHOOSE i \in ds : \A j \in ds : i <= j

C9_Prefix(s) == SubSeq(s, 1, C9_FirstDigit(s) - 1)

C9_Rest(s) == SubSeq(s, C9_FirstDigit(s), Len(s))

C9_Splits(s) ==
    /\ C9_Prefix(s) # <<>>
    /\ \A i \in 1..Len(C9_Rest(s)) : C9_Rest(s)[i] = "\n" => i = Len(C9_Rest(s))

\* C9: a street that begins with a character that is no digit, and has no
\* line break after its first digit other than a last one, is split at its
\* first digit into street and house number, both trimmed (the house number
\* is empty when there is no digit); any other street is passed on whole and
\* untrimmed with an empty house number.  Postal code and city are passed on
\* as they are, server.py repairing the encoding of all three first.
C9_Address ==
    (input.fn = "address" /\ output # Pending) =>
        LET s == Fix(input.fix, input.adresse.strasse)
        IN  /\ IF C9_Splits(s)
               THEN /\ output.street = Strip(C9_Prefix(s))
                    /\ output.house_numbers = Strip(C9_Rest(s))
               ELSE /\ output.street = s
                    /\ output.house_numbers = <<>>
            /\ output.zip_code = Fix(input.fix, input.adresse.plz)
            /\ output.city = Fix(input.fix, input.adresse.ort)

\* C9 as stated: the trimmed prefix without digit, the remainder from the
\* first digit, postal code and city unchanged.
C9_AddressAsStated ==
    (input.fn = "address" /\ output # Pending) =>
        /\ output.street = Strip(C9_Prefix(input.adresse.strasse))
        /\ output.house_numbers = C9_Rest(input.adresse.strasse)
        /\ output.zip_code = input.adresse.plz
        /\ output.city = input.adresse.ort

\* A street split into a street and a house number.
C9_Witness ==
    /\ input.fn = "address"
    /\ output # Pending
    /\ C9_Splits(input.adresse.strasse)
    /\ output.street # <<>>
    /\ output.house_numbers # <<>>
    /\ Len(output.street) + Len(output.house_numbers) < Len(input.adresse.strasse) - 1


\* The pair of a slot as an element of the history of upstream calls.
RefreshOf(key, slot) == [land |-> key, ts |-> slot.ts, entries |-> slot.entries]

\* C11: under every interleaving of calls of _get_entries_cached by several
\* threads, each slot of the cache, and each slot a thread has read from it,
\* is the (now, entries) pair of one single upstream call for that land, and
\* a list returned is the list of such a call.
C11_SlotIntegrity ==
    /\ \A key \in DOMAIN entries_cache : RefreshOf(key, entries_cache[key]) \in refreshes
    /\ \A t \in 1..MaxThreads :
           /\ threads[t].entry # NoneValue =>
                  RefreshOf(threads[t].land.name, threads[t].entry) \in refreshes
           /\ (threads[t].pc = "done" /\ threads[t].result.tag = "entries") =>
                  \E r \in refreshes :
                      r.land = threads[t].land.name /\ r.entries = threads[t].result.entries

\* Two threads that both found no slot for the same land, fetched different
\* lists at different times and both stored theirs.
C11_Witness ==
    \E t, u \in 1..MaxThreads :
        /\ threads[t].pc = "done" /\ threads[u].pc = "done"
        /\ threads[t].land = threads[u].land
        /\ threads[t].entry = NoneValue /\ threads[u].entry = NoneValue
        /\ threads[t].result = Entries(threads[t].entries)
        /\ threads[u].result = Entries(threads[u].entries)
        /\ threads[t].entries # threads[u].entries
        /\ threads[t].now < threads[u].now
        /\ entries_cache[threads[t].land.name] = [ts |-> threads[t].now,
                                                  entries |-> threads[t].entries]


\* C12: when the upstream call of a refresh raises, the cache is left as it
\* was -- the land's slot, if it had one, with its entries and timestamp, no
\* new slot, the other slots untouched -- and the request is answered with a
\* server error and no listings.
C12_FailedRefresh ==
    [][(request'.impl = "server" /\ nreq' = nreq + 1 /\ trace'.fetched
          /\ trace'.portal_calls = 1 /\ request'.up.tag = "raise") =>
          /\ entries_cache' = entries_cache
          /\ response'.status = 500
          /\ response'.body = <<>>]_vars

\* A refresh of a slot past its time-to-live whose upstream call raised.
C12_Witness ==
    /\ Served("server")
    /\ request.up.tag = "raise"
    /\ trace.portal_calls = 1
    /\ response.status = 500
    /\ trace.land.name \in DOMAIN entries_cache
    /\ clock - entries_cache[trace.land.name].ts >= cache_ttl_seconds
    /\ entries_cache[trace.land.name].entries # <<>>


\* The registry after the first k lands of the enumeration.
C13_ServerMapAfter(k) == BuildStateMap(EmptyDict, SubSeq(laender, 1, k))

C13_AppMapAfter(k) == app_BuildStateMap(EmptyDict, SubSeq(laender, 1, k))

\* C13: with two or more lands enumerated, a request whose state is the
\* canonical name of a land is served for that land, every canonical name
\* resolves to its own land in both registries, and registering a further land
\* leaves every key registered before it with the land it had.
C13_CanonicalNames ==
    (nreq = 1 /\ Len(laender) >= 2 /\ MinDaysNumeric(request.req.minDays)) =>
        /\ \A i \in 1..Len(laender) :
               /\ request.req.state = laender[i].name => trace.land = laender[i]
               /\ ZVGBackend_resolve(state_map, laender[i].name) = laender[i]
               /\ app_resolve(app_state_map, laender[i].name) = laender[i]
        /\ \A k \in 1..(Len(laender) - 1) :
               /\ \A key \in DOMAIN C13_ServerMapAfter(k) :
                      C13_ServerMapAfter(k + 1)[key] = C13_ServerMapAfter(k)[key]
               /\ \A key \in DOMAIN C13_AppMapAfter(k) :
                      C13_AppMapAfter(k + 1)[key] = C13_AppMapAfter(k)[key]
====
